---- MODULE Spec2Model ----
(***************************************************************************)
(* Wardley-map plugin: the parser (src/src/parser.ts) and the layout part  *)
(* of the renderer (renderer.ts, kept in src/unnamed/part_003 after the    *)
(* type declarations of types.ts).                                         *)
(*                                                                         *)
(* A source text is a sequence of lines; a trimmed line is a sequence of   *)
(* whitespace-separated tokens.  The regular expressions of the parser are *)
(* modelled on tokens: a name is the token sequence between the keyword    *)
(* and the bracketed stage, "->" and ";" are tokens of their own.          *)
(* Coordinates are exact rationals [n, d] in lowest terms (the code uses   *)
(* IEEE doubles; rounding of doubles is not modelled).                     *)
(***************************************************************************)
EXTENDS Integers, Sequences, FiniteSets, TLC

VARIABLES
    text,          \* lines of the source read so far (source.split("\n"))
    map,           \* parseWardleyMap: the local WardleyMap being built
    componentMap,  \* parseWardleyMap: keys of the name -> Component table
    errors,        \* parseWardleyMap: ParseError[]
    result,        \* the {map, errors} object parse returned (once returned)
    phase,         \* "parsing" | "returned" | "rendered"
    renders,       \* number of renderWardleyMap calls on the returned graph
    svg,           \* the elements of the string the last renderWardleyMap returned
    container,     \* the children of the code block's HTMLElement
    calls          \* number of renderWardleyBlock calls on the container

vars == <<text, map, componentMap, errors, result, phase, renders, svg,
          container, calls>>

\* An optional value is <<>> (null / undefined) or <<v>>
Null == <<>>
Undefined == <<>>
Some(v) == <<v>>

-----------------------------------------------------------------------------
(* Rationals                                                               *)

RECURSIVE Gcd(_, _)
Gcd(a, b) == IF b = 0 THEN a ELSE Gcd(b, a % b)

Abs(a) == IF a < 0 THEN -a ELSE a

\* n/d in lowest terms with a positive denominator
Rat(n, d) ==
    LET s == IF d < 0 THEN -1 ELSE 1
        g == Gcd(Abs(n), Abs(d))
    IN  [n |-> (s * n) \div g, d |-> (s * d) \div g]

RAdd(p, q) == Rat(p.n * q.d + q.n * p.d, p.d * q.d)
RMul(p, q) == Rat(p.n * q.n, p.d * q.d)
RDiv(p, q) == Rat(p.n * q.d, p.d * q.n)
RLeq(p, q) == p.n * q.d <= q.n * p.d
RLt(p, q) == p.n * q.d < q.n * p.d
RMax(p, q) == IF RLeq(p, q) THEN q ELSE p
RInt(k) == [n |-> k, d |-> 1]
\* the x / y of a Component that has not been given a position (x?: number)
Unset == [n |-> 0, d |-> 0]
IsNumber(v) == v.d # 0

-----------------------------------------------------------------------------
(* Tokens                                                                  *)

\* A token of the form "[word]" (regex \[(\w+)\]) and the word inside it.
\* "[a-b]" is a token whose bracket content is not \w+ and is not in the table.
BracketWord ==
    [t \in {"[genesis]", "[custom]", "[product]", "[commodity]", "[bogus]"} |->
        CASE t = "[genesis]" -> "genesis"
          [] t = "[custom]" -> "custom"
          [] t = "[product]" -> "product"
          [] t = "[commodity]" -> "commodity"
          [] t = "[bogus]" -> "bogus"]

IsBracket(t) == t \in DOMAIN BracketWord

ValidStages == <<"genesis", "custom", "product", "commodity">>

isValidStage(stage) == \E i \in 1..Len(ValidStages) : ValidStages[i] = stage

Last(s) == s[Len(s)]

\* index of the first token equal to t at position >= from, 0 when there is none
RECURSIVE IndexFrom(_, _, _)
IndexFrom(s, t, from) ==
    IF from > Len(s) THEN 0
    ELSE IF s[from] = t THEN from
    ELSE IndexFrom(s, t, from + 1)

\* line.split("->"): the token runs between the "->" tokens
RECURSIVE Split(_)
Split(s) ==
    LET i == IndexFrom(s, "->", 1)
    IN  IF i = 0 THEN <<s>>
        ELSE <<SubSeq(s, 1, i - 1)>> \o Split(SubSeq(s, i + 1, Len(s)))

-----------------------------------------------------------------------------
(* parser.ts                                                               *)

EmptyMap ==
    [title |-> Undefined, components |-> <<>>, dependencies |-> <<>>,
     evolutions |-> <<>>, annotations |-> <<>>, notes |-> <<>>]

\* /^component\s+(.+?)\s+\[(\w+)\]$/
componentMatch(line) ==
    Len(line) >= 3 /\ line[1] = "component" /\ IsBracket(Last(line))

\* /^anchor\s+(.+?)\s+\[(\w+)\]$/
anchorMatch(line) ==
    Len(line) >= 3 /\ line[1] = "anchor" /\ IsBracket(Last(line))

\* position of the "->" that /^evolve\s+(.+?)\s+->\s+(.+?)\s+\[(\w+)\]$/ takes
\* as the separator: the first one that leaves a non-empty name before it
EvolveArrow(line) == IndexFrom(line, "->", 3)

evolveMatch(line) ==
    /\ Len(line) >= 5
    /\ line[1] = "evolve"
    /\ IsBracket(Last(line))
    /\ EvolveArrow(line) # 0
    /\ EvolveArrow(line) <= Len(line) - 2

\* /^evolve\s+(.+?)\s+\[(\w+)\]$/
evolveStageMatch(line) ==
    Len(line) >= 3 /\ line[1] = "evolve" /\ IsBracket(Last(line))

\* /^annotation\s+(\S+)\s+(.+)$/
annotationMatch(line) == Len(line) >= 3 /\ line[1] = "annotation"

\* the name captured between the keyword and the bracketed stage
DeclName(line) == SubSeq(line, 2, Len(line) - 1)
DeclStage(line) == BracketWord[Last(line)]

Err(lineNum, kind, arg) == [line |-> lineNum, kind |-> kind, arg |-> arg]

\* one "from -> to" pair of parseDependencyChain (i is 0-based as in the code)
ChainEdge(parts, i) ==
    LET from0 == parts[i + 1]
        to0 == parts[i + 2]
        semicolonIdx == IndexFrom(to0, ";", 1)
        label == IF semicolonIdx # 0
                 THEN Some(SubSeq(to0, semicolonIdx + 1, Len(to0)))
                 ELSE Undefined
        to == IF semicolonIdx # 0 THEN SubSeq(to0, 1, semicolonIdx - 1) ELSE to0
        fromSemicolonIdx == IndexFrom(from0, ";", 1)
        from == IF i = 0 /\ fromSemicolonIdx # 0
                THEN SubSeq(from0, 1, fromSemicolonIdx - 1)
                ELSE from0
    IN  [from |-> from, to |-> to, label |-> label]

RECURSIVE ChainEdges(_, _)
ChainEdges(parts, i) ==
    IF i >= Len(parts) - 1 THEN <<>>
    ELSE <<ChainEdge(parts, i)>> \o ChainEdges(parts, i + 1)

\* the dependencies array after parseDependencyChain(line, ...)
parseDependencyChain(line, dependencies) ==
    dependencies \o ChainEdges(Split(line), 0)

\* variant: the annotation and note keywords are tried before the arrow
LineForm_KeywordFirst(line) ==
    IF line = <<>> \/ line[1] = "#" THEN "skip"
    ELSE IF Len(line) >= 2 /\ line[1] = "title" THEN "title"
    ELSE IF componentMatch(line) THEN "component"
    ELSE IF anchorMatch(line) THEN "anchor"
    ELSE IF evolveMatch(line) THEN "evolve"
    ELSE IF evolveStageMatch(line) THEN "evolveStage"
    ELSE IF annotationMatch(line) THEN "annotation"
    ELSE IF Len(line) >= 2 /\ line[1] = "note" THEN "note"
    ELSE IF IndexFrom(line, "->", 1) # 0 THEN "dependency"
    ELSE "unknown"

\* The statement form the if-chain of the line loop takes a trimmed line for,
\* in the order the code tries them.
LineForm(line) ==
    IF line = <<>> \/ line[1] = "#" THEN "skip"
    ELSE IF Len(line) >= 2 /\ line[1] = "title" THEN "title"
    ELSE IF componentMatch(line) THEN "component"
    ELSE IF anchorMatch(line) THEN "anchor"
    ELSE IF evolveMatch(line) THEN "evolve"
    ELSE IF evolveStageMatch(line) THEN "evolveStage"
    ELSE IF IndexFrom(line, "->", 1) # 0 THEN "dependency"
    ELSE IF annotationMatch(line) THEN "annotation"
    ELSE IF Len(line) >= 2 /\ line[1] = "note" THEN "note"
    ELSE "unknown"

\* errors.push({line: lineNum, message}) on the parser state st
Fail(st, lineNum, kind, arg) ==
    [st EXCEPT !.errors = Append(@, Err(lineNum, kind, arg))]

\* variant: the componentMap.has(name) test of a declaration is missing
Declare_NoDuplicateCheck(st, name, stage, isAnchor, lineNum) ==
    IF ~isValidStage(stage) THEN Fail(st, lineNum, "InvalidStage", <<stage>>)
    ELSE [st EXCEPT
            !.componentMap = @ \cup {name},
            !.map.components = Append(@,
                [name |-> name, stage |-> stage, isAnchor |-> isAnchor,
                 x |-> Unset, y |-> Unset])]

\* the body of the "Component" and "Anchor" branches
Declare(st, name, stage, isAnchor, lineNum) ==
    IF ~isValidStage(stage) THEN Fail(st, lineNum, "InvalidStage", <<stage>>)
    ELSE IF name \in st.componentMap THEN Fail(st, lineNum, "Duplicate", name)
    ELSE [st EXCEPT
            !.componentMap = @ \cup {name},
            !.map.components = Append(@,
                [name |-> name, stage |-> stage, isAnchor |-> isAnchor,
                 x |-> Unset, y |-> Unset])]

\* the body of the "Evolution (component to component)" branch
Evolve(st, from, to, stage, lineNum) ==
    IF from \notin st.componentMap THEN Fail(st, lineNum, "NotDeclared", from)
    ELSE IF to \notin st.componentMap THEN Fail(st, lineNum, "NotDeclared", to)
    ELSE [st EXCEPT !.map.evolutions =
                Append(@, [from |-> from, to |-> to, stage |-> stage])]

\* the body of the "Evolution (stage evolution)" branch
EvolveStage(st, name, lineNum) ==
    IF name \notin st.componentMap THEN Fail(st, lineNum, "NotDeclared", name)
    ELSE st

\* variant: a title that is already set is kept
SetTitle_KeepFirst(st, line) ==
    IF st.map.title # Undefined THEN st
    ELSE [st EXCEPT !.map.title = Some(Tail(line))]

\* the body of the "Title" branch: map.title = line.substring(6).trim()
SetTitle(st, line) ==
    [st EXCEPT !.map.title = Some(Tail(line))]

\* One iteration of the line loop of parseWardleyMap on the trimmed line,
\* from the state st = [map, componentMap, errors].
ParseLine(st, line, lineNum) ==
    LET form == LineForm(line)
    IN  CASE form = "skip" -> st
          [] form = "title" -> SetTitle(st, line)
          [] form = "component" ->
                Declare(st, DeclName(line), DeclStage(line), FALSE, lineNum)
          [] form = "anchor" ->
                Declare(st, DeclName(line), DeclStage(line), TRUE, lineNum)
          [] form = "evolve" ->
                Evolve(st, SubSeq(line, 2, EvolveArrow(line) - 1),
                       SubSeq(line, EvolveArrow(line) + 1, Len(line) - 1),
                       DeclStage(line), lineNum)
          [] form = "evolveStage" -> EvolveStage(st, DeclName(line), lineNum)
          [] form = "dependency" ->
                [st EXCEPT !.map.dependencies = parseDependencyChain(line, @)]
          [] form = "annotation" ->
                [st EXCEPT !.map.annotations =
                    Append(@, [id |-> line[2], text |-> SubSeq(line, 3, Len(line))])]
          [] form = "note" -> [st EXCEPT !.map.notes = Append(@, Tail(line))]
          [] OTHER -> Fail(st, lineNum, "UnknownSyntax", line)

\* variant: the post-pass tests only the "from" end of each dependency
RECURSIVE ValidateDependencies_FromOnly(_, _, _)
ValidateDependencies_FromOnly(deps, declared, i) ==
    IF i > Len(deps) THEN <<>>
    ELSE (IF deps[i].from \notin declared
          THEN <<Err(0, "ReferencedNotDeclared", deps[i].from)>> ELSE <<>>)
         \o ValidateDependencies_FromOnly(deps, declared, i + 1)

\* "Validate dependencies": the errors the post-pass adds, in order
RECURSIVE ValidateDependencies(_, _, _)
ValidateDependencies(deps, declared, i) ==
    IF i > Len(deps) THEN <<>>
    ELSE (IF deps[i].from \notin declared
          THEN <<Err(0, "ReferencedNotDeclared", deps[i].from)>> ELSE <<>>)
         \o (IF deps[i].to \notin declared
             THEN <<Err(0, "ReferencedNotDeclared", deps[i].to)>> ELSE <<>>)
         \o ValidateDependencies(deps, declared, i + 1)

\* variant: the graph is handed back whatever the error list holds
ParseResult_KeepPartial(m, errs) == [map |-> Some(m), errors |-> errs]

\* the object parseWardleyMap returns
ParseResult(m, errs) ==
    [map |-> IF Len(errs) = 0 THEN Some(m) ELSE Null, errors |-> errs]

-----------------------------------------------------------------------------
(* renderer.ts: layout                                                     *)

STAGE_POSITIONS ==
    [s \in {"genesis", "custom", "product", "commodity"} |->
        CASE s = "genesis" -> Rat(125, 1000)
          [] s = "custom" -> Rat(375, 1000)
          [] s = "product" -> Rat(625, 1000)
          [] s = "commodity" -> Rat(875, 1000)]

\* Map.get(k) ?? 0
GetOr0(f, k) == IF k \in DOMAIN f THEN f[k] ELSE 0

\* Map.set(k, v)
Put(f, k, v) == (k :> v) @@ f

\* "Initialize": inDegree 0 and an empty adjacency list for every component
RECURSIVE InitDegree(_, _)
InitDegree(components, i) ==
    IF i > Len(components) THEN <<>>
    ELSE Put(InitDegree(components, i + 1), components[i].name, 0)

RECURSIVE InitGraph(_, _)
InitGraph(components, i) ==
    IF i > Len(components) THEN <<>>
    ELSE Put(InitGraph(components, i + 1), components[i].name, <<>>)

\* variant: the graph is built in the direction of the edges, not reversed
RECURSIVE BuildGraph_Forward(_, _, _)
BuildGraph_Forward(g, dependencies, i) ==
    IF i > Len(dependencies) THEN g
    ELSE LET dep == dependencies[i]
             graph1 == IF dep.from \in DOMAIN g.graph
                       THEN Put(g.graph, dep.from, Append(g.graph[dep.from], dep.to))
                       ELSE g.graph
             inDegree1 == Put(g.inDegree, dep.to, GetOr0(g.inDegree, dep.to) + 1)
         IN  BuildGraph_Forward([graph |-> graph1, inDegree |-> inDegree1],
                                dependencies, i + 1)

\* "Build graph (reversed ...)": g = [graph, inDegree] after dependencies i..
RECURSIVE BuildGraph(_, _, _)
BuildGraph(g, dependencies, i) ==
    IF i > Len(dependencies) THEN g
    ELSE LET dep == dependencies[i]
             graph1 == IF dep.to \in DOMAIN g.graph
                       THEN Put(g.graph, dep.to, Append(g.graph[dep.to], dep.from))
                       ELSE g.graph
             inDegree1 == Put(g.inDegree, dep.from, GetOr0(g.inDegree, dep.from) + 1)
         IN  BuildGraph([graph |-> graph1, inDegree |-> inDegree1], dependencies, i + 1)

\* variant: every component is put on the queue, whatever its in-degree
RECURSIVE SeedQueue_All(_, _, _, _)
SeedQueue_All(b, components, inDegree, i) ==
    IF i > Len(components) THEN b
    ELSE LET name == components[i].name
         IN  SeedQueue_All(
                [queue |-> Append(b.queue, name), layers |-> Put(b.layers, name, 0)],
                components, inDegree, i + 1)

\* "Start with nodes that have no dependencies": b = [queue, layers]
RECURSIVE SeedQueue(_, _, _, _)
SeedQueue(b, components, inDegree, i) ==
    IF i > Len(components) THEN b
    ELSE LET name == components[i].name
         IN  SeedQueue(
                IF inDegree[name] = 0
                THEN [queue |-> Append(b.queue, name), layers |-> Put(b.layers, name, 0)]
                ELSE b,
                components, inDegree, i + 1)

\* variant: a neighbour takes the layer of the dequeued name, not one more
RECURSIVE Relax_SameLayer(_, _, _, _)
Relax_SameLayer(b, neighbors, currentLayer, i) ==
    IF i > Len(neighbors) THEN b
    ELSE LET neighbor == neighbors[i]
             newDegree == GetOr0(b.inDegree, neighbor) - 1
             neighborLayer == GetOr0(b.layers, neighbor)
             newLayer == IF neighborLayer >= currentLayer
                         THEN neighborLayer ELSE currentLayer
         IN  Relax_SameLayer(
                   [queue |-> IF newDegree = 0 THEN Append(b.queue, neighbor)
                              ELSE b.queue,
                    layers |-> Put(b.layers, neighbor, newLayer),
                    inDegree |-> Put(b.inDegree, neighbor, newDegree)],
                   neighbors, currentLayer, i + 1)

\* the inner "for (const neighbor of graph.get(current) ?? [])" loop
RECURSIVE Relax(_, _, _, _)
Relax(b, neighbors, currentLayer, i) ==
    IF i > Len(neighbors) THEN b
    ELSE LET neighbor == neighbors[i]
             newDegree == GetOr0(b.inDegree, neighbor) - 1
             neighborLayer == GetOr0(b.layers, neighbor)
             newLayer == IF neighborLayer >= currentLayer + 1
                         THEN neighborLayer ELSE currentLayer + 1
         IN  Relax([queue |-> IF newDegree = 0 THEN Append(b.queue, neighbor)
                              ELSE b.queue,
                    layers |-> Put(b.layers, neighbor, newLayer),
                    inDegree |-> Put(b.inDegree, neighbor, newDegree)],
                   neighbors, currentLayer, i + 1)

\* the "while (queue.length > 0)" loop
RECURSIVE Bfs(_, _)
Bfs(b, graph) ==
    IF Len(b.queue) = 0 THEN b.layers
    ELSE LET current == Head(b.queue)
             currentLayer == GetOr0(b.layers, current)
             neighbors == IF current \in DOMAIN graph THEN graph[current] ELSE <<>>
         IN  Bfs(Relax([b EXCEPT !.queue = Tail(@)], neighbors, currentLayer, 1), graph)

\* the name -> layer map (a function on the names that were given a layer)
topologicalSort(components, dependencies) ==
    LET g == BuildGraph([graph |-> InitGraph(components, 1),
                         inDegree |-> InitDegree(components, 1)], dependencies, 1)
        seed == SeedQueue([queue |-> <<>>, layers |-> <<>>], components, g.inDegree, 1)
    IN  Bfs([queue |-> seed.queue, layers |-> seed.layers, inDegree |-> g.inDegree],
            g.graph)

\* variant: the largest layer without the floor of 0, -1 when no layer exists
MaxLayer_NoFloor(layers) ==
    IF DOMAIN layers = {} THEN -1
    ELSE CHOOSE m \in {layers[k] : k \in DOMAIN layers} :
            \A k \in DOMAIN layers : layers[k] <= m

\* Math.max(...layers.values(), 0)
MaxLayer(layers) ==
    IF DOMAIN layers = {} THEN 0
    ELSE CHOOSE m \in {layers[k] : k \in DOMAIN layers} \cup {0} :
            \A k \in DOMAIN layers : layers[k] <= m /\ m >= 0

\* The queue loop of topologicalSort with a record of its run: b carries,
\* besides queue, layers and inDegree, every name pushed on the queue
\* (pushed), the names taken off it (shifted), whether an in-degree went
\* below zero (negative) and whether the layer of a name changed after the
\* name was taken off the queue (late).
RECURSIVE RelaxRun(_, _, _, _)
RelaxRun(b, neighbors, currentLayer, i) ==
    IF i > Len(neighbors) THEN b
    ELSE LET neighbor == neighbors[i]
             newDegree == GetOr0(b.inDegree, neighbor) - 1
             neighborLayer == GetOr0(b.layers, neighbor)
             newLayer == IF neighborLayer >= currentLayer + 1
                         THEN neighborLayer ELSE currentLayer + 1
         IN  RelaxRun([queue |-> IF newDegree = 0 THEN Append(b.queue, neighbor)
                                 ELSE b.queue,
                       layers |-> Put(b.layers, neighbor, newLayer),
                       inDegree |-> Put(b.inDegree, neighbor, newDegree),
                       pushed |-> IF newDegree = 0 THEN Append(b.pushed, neighbor)
                                  ELSE b.pushed,
                       shifted |-> b.shifted,
                       negative |-> b.negative \/ newDegree < 0,
                       late |-> b.late \/ (neighbor \in b.shifted
                                            /\ newLayer # neighborLayer)],
                      neighbors, currentLayer, i + 1)

RECURSIVE BfsRun(_, _)
BfsRun(b, graph) ==
    IF Len(b.queue) = 0 THEN b
    ELSE LET current == Head(b.queue)
             currentLayer == GetOr0(b.layers, current)
             neighbors == IF current \in DOMAIN graph THEN graph[current] ELSE <<>>
         IN  BfsRun(RelaxRun([b EXCEPT !.queue = Tail(@),
                                       !.shifted = @ \cup {current}],
                             neighbors, currentLayer, 1), graph)

\* the run of topologicalSort(components, dependencies)
topologicalSortRun(components, dependencies) ==
    LET g == BuildGraph([graph |-> InitGraph(components, 1),
                         inDegree |-> InitDegree(components, 1)], dependencies, 1)
        seed == SeedQueue([queue |-> <<>>, layers |-> <<>>], components, g.inDegree, 1)
    IN  BfsRun([queue |-> seed.queue, layers |-> seed.layers,
                inDegree |-> g.inDegree, pushed |-> seed.queue, shifted |-> {},
                negative |-> FALSE, late |-> FALSE], g.graph)

\* components.find((c) => c.name === name): index of the first match, 0 if none
RECURSIVE Find(_, _, _)
Find(components, name, i) ==
    IF i > Len(components) THEN 0
    ELSE IF components[i].name = name THEN i
    ELSE Find(components, name, i + 1)

\* "Evolved components inherit Y position from their source", evolutions i..
RECURSIVE AlignEvolutions(_, _, _)
AlignEvolutions(components, evolutions, i) ==
    IF i > Len(evolutions) THEN components
    ELSE LET s == Find(components, evolutions[i].from, 1)
             t == Find(components, evolutions[i].to, 1)
         IN  AlignEvolutions(
                IF s # 0 /\ t # 0 /\ IsNumber(components[s].y)
                THEN [components EXCEPT ![t].y = components[s].y]
                ELSE components,
                evolutions, i + 1)

\* y.toFixed(3) as the number of thousandths, -1 for "undefined"
ToFixed3(y) ==
    IF ~IsNumber(y) THEN -1 ELSE (2000 * y.n + y.d) \div (2 * y.d)

\* the grouping key `${comp.y?.toFixed(3)}_${comp.stage}`
GroupKey(comp) == <<ToFixed3(comp.y), comp.stage>>

\* variant: the members of a group are also staggered vertically
spreadOverlappingComponents_Stagger(components) ==
    [k \in 1..Len(components) |->
        LET comp == components[k]
            group == {j \in 1..Len(components) :
                        GroupKey(components[j]) = GroupKey(comp)}
            first == CHOOSE j \in group : \A j2 \in group : j <= j2
            n == Cardinality(group)
            index == Cardinality({j \in group : j < k})
            spreadRange == RMul(Rat(12, 100), RMax(RInt(1), Rat(n, 3)))
            denom == IF n - 1 >= 1 THEN n - 1 ELSE 1
            offset == RMul(Rat(2 * index - (n - 1), 2),
                           RDiv(spreadRange, RInt(denom)))
        IN  IF n > 1 THEN [comp EXCEPT !.x = RAdd(components[first].x, offset),
                                       !.y = RAdd(comp.y, Rat(index, 100))]
            ELSE comp]

\* variant: the offset is taken from the position in the whole component
\* list, not from the index within the group
spreadOverlappingComponents_ByPosition(components) ==
    [k \in 1..Len(components) |->
        LET comp == components[k]
            group == {j \in 1..Len(components) :
                        GroupKey(components[j]) = GroupKey(comp)}
            first == CHOOSE j \in group : \A j2 \in group : j <= j2
            n == Cardinality(group)
            spreadRange == RMul(Rat(12, 100), RMax(RInt(1), Rat(n, 3)))
            denom == IF n - 1 >= 1 THEN n - 1 ELSE 1
            offset == RMul(Rat(2 * ((k - 1) % n) - (n - 1), 2),
                           RDiv(spreadRange, RInt(denom)))
        IN  IF n > 1 THEN [comp EXCEPT !.x = RAdd(components[first].x, offset)]
            ELSE comp]

\* variant: the offsets start at the group's x instead of being centred on it
spreadOverlappingComponents_FromBase(components) ==
    [k \in 1..Len(components) |->
        LET comp == components[k]
            group == {j \in 1..Len(components) :
                        GroupKey(components[j]) = GroupKey(comp)}
            first == CHOOSE j \in group : \A j2 \in group : j <= j2
            n == Cardinality(group)
            index == Cardinality({j \in group : j < k})
            spreadRange == RMul(Rat(12, 100), RMax(RInt(1), Rat(n, 3)))
            denom == IF n - 1 >= 1 THEN n - 1 ELSE 1
            offset == RMul(RInt(index), RDiv(spreadRange, RInt(denom)))
        IN  IF n > 1 THEN [comp EXCEPT !.x = RAdd(components[first].x, offset)]
            ELSE comp]

spreadOverlappingComponents(components) ==
    [k \in 1..Len(components) |->
        LET comp == components[k]
            group == {j \in 1..Len(components) :
                        GroupKey(components[j]) = GroupKey(comp)}
            first == CHOOSE j \in group : \A j2 \in group : j <= j2
            n == Cardinality(group)
            index == Cardinality({j \in group : j < k})
            baseX == components[first].x
            baseSpread == Rat(12, 100)
            spreadMultiplier == RMax(RInt(1), Rat(n, 3))
            spreadRange == RMul(baseSpread, spreadMultiplier)
            denom == IF n - 1 >= 1 THEN n - 1 ELSE 1
            offset == RMul(Rat(2 * index - (n - 1), 2), RDiv(spreadRange, RInt(denom)))
        IN  IF n > 1 THEN [comp EXCEPT !.x = RAdd(baseX, offset)] ELSE comp]

\* variant: a component that already has an x keeps it
AssignX_KeepPlaced(components) ==
    [k \in 1..Len(components) |->
        IF IsNumber(components[k].x) THEN components[k]
        ELSE [components[k] EXCEPT !.x = STAGE_POSITIONS[components[k].stage]]]

\* "X-axis: Based on evolution stage (initial positioning)"
AssignX(components) ==
    [k \in 1..Len(components) |->
        [components[k] EXCEPT !.x = STAGE_POSITIONS[components[k].stage]]]

\* variant: the layers are counted from 1 in the normalisation
AssignY_FromOne(components, layers, maxLayer) ==
    [k \in 1..Len(components) |->
        LET layer == GetOr0(layers, components[k].name)
        IN  [components[k] EXCEPT !.y =
                IF components[k].isAnchor THEN RInt(0)
                ELSE Rat(maxLayer + 1 - layer, maxLayer + 1)]]

\* variant: layers.get(comp.name) without the "?? 0" default
AssignY_NoDefault(components, layers, maxLayer) ==
    [k \in 1..Len(components) |->
        [components[k] EXCEPT !.y =
            IF components[k].isAnchor THEN RInt(0)
            ELSE IF components[k].name \notin DOMAIN layers THEN Unset
            ELSE Rat(maxLayer - layers[components[k].name], maxLayer + 1)]]

\* variant: y grows with the layer instead of being inverted
AssignY_NotInverted(components, layers, maxLayer) ==
    [k \in 1..Len(components) |->
        [components[k] EXCEPT !.y =
            IF components[k].isAnchor THEN RInt(0)
            ELSE Rat(GetOr0(layers, components[k].name), maxLayer + 1)]]

\* "Assign Y positions based on layers", with the anchor override
AssignY(components, layers, maxLayer) ==
    [k \in 1..Len(components) |->
        LET layer == GetOr0(layers, components[k].name)
        IN  [components[k] EXCEPT !.y =
                IF components[k].isAnchor THEN RInt(0)
                ELSE Rat(maxLayer - layer, maxLayer + 1)]]

\* variant: the evolutions are consumed by the alignment
calculatePositions_ConsumeEvolutions(m) ==
    LET withX == AssignX(m.components)
        layers == topologicalSort(withX, m.dependencies)
        withY == AssignY(withX, layers, MaxLayer(layers))
        aligned == AlignEvolutions(withY, m.evolutions, 1)
    IN  [m EXCEPT !.components = spreadOverlappingComponents(aligned),
                  !.evolutions = <<>>]

\* the graph object after calculatePositions(map)
calculatePositions(m) ==
    LET withX == AssignX(m.components)
        layers == topologicalSort(withX, m.dependencies)
        withY == AssignY(withX, layers, MaxLayer(layers))
        aligned == AlignEvolutions(withY, m.evolutions, 1)
    IN  [m EXCEPT !.components = spreadOverlappingComponents(aligned)]

-----------------------------------------------------------------------------
(* renderer.ts: renderWardleyMap                                           *)

\* the default RenderOptions
width == 800
height == 600
padding == 60
nodeRadius == 8

STAGE_LABELS ==
    [genesis |-> <<"Genesis">>, custom |-> <<"Custom", "Built">>,
     product |-> <<"Product">>, commodity |-> <<"Commodity">>]

\* escapeHtml on one token: of the tokens of the texts only "->" holds one of
\* the characters & < > " '
EscapeToken(t) == IF t = "->" THEN "-&gt;" ELSE t

escapeHtml(txt) == [k \in 1..Len(txt) |-> EscapeToken(txt[k])]

\* padding + x * (width - 2 * padding)
PxX(x) == RAdd(RInt(padding), RMul(x, RInt(width - 2 * padding)))

\* padding + y * (height - 2 * padding - 40)
PxY(y) == RAdd(RInt(padding), RMul(y, RInt(height - 2 * padding - 40)))

\* One string pushed on the svg array: its tag, its coordinates, its
\* stroke-dasharray, marker-end and class attributes, and its text.
Element(tag, at, dash, marker, class, txt) ==
    [tag |-> tag, at |-> at, dash |-> dash, marker |-> marker,
     class |-> class, text |-> txt]

\* "SVG header", "Arrow marker definitions", "Background"
SvgHeader ==
    << Element("svg", <<RInt(0), RInt(0), RInt(width), RInt(height)>>,
               "", "", "wardley-map", <<>>),
       Element("defs", <<>>, "", "", "", <<"arrowhead", "arrowhead-evolution">>),
       Element("rect", <<RInt(width), RInt(height)>>, "", "", "", <<>>) >>

\* "Evolution stage labels and grid lines" for stages i..4
RECURSIVE StageGrid(_)
StageGrid(i) ==
    IF i > Len(ValidStages) THEN <<>>
    ELSE LET x == PxX(STAGE_POSITIONS[ValidStages[i]])
         IN  << Element("line", <<x, RInt(padding), x, RInt(height - padding)>>,
                        "4,4", "", "", <<>>),
                Element("text", <<x, RInt(height - padding + 30)>>,
                        "", "", "", STAGE_LABELS[ValidStages[i]]) >>
             \o StageGrid(i + 1)

\* "Axes labels"
AxesLabels ==
    << Element("text", <<Rat(width, 2), RInt(height - 10)>>, "", "", "",
               <<"Evolution">>),
       Element("text", <<RInt(20), Rat(height, 2)>>, "", "", "",
               <<"Value", "Chain">>) >>

\* "Title": if (map.title)
TitleText(m) ==
    IF m.title # Undefined /\ m.title[1] # <<>>
    THEN <<Element("text", <<Rat(width, 2), RInt(30)>>, "", "", "",
                   escapeHtml(m.title[1]))>>
    ELSE <<>>

\* fromComp && toComp && all four of their x, y !== undefined
Drawable(m, from, to) ==
    LET f == Find(m.components, from, 1)
        t == Find(m.components, to, 1)
    IN  /\ f # 0 /\ t # 0
        /\ IsNumber(m.components[f].x) /\ IsNumber(m.components[f].y)
        /\ IsNumber(m.components[t].x) /\ IsNumber(m.components[t].y)

\* x1, y1, x2, y2 of the line between two components
Segment(m, from, to) ==
    LET f == m.components[Find(m.components, from, 1)]
        t == m.components[Find(m.components, to, 1)]
    IN  <<PxX(f.x), PxY(f.y), PxX(t.x), PxY(t.y)>>

\* variant: a dependency edge equal to an earlier one is not drawn again
RECURSIVE DrawDependencies_Once(_, _)
DrawDependencies_Once(m, i) ==
    IF i > Len(m.dependencies) THEN <<>>
    ELSE LET dep == m.dependencies[i]
         IN  (IF Drawable(m, dep.from, dep.to)
                 /\ \A j \in 1..(i - 1) : m.dependencies[j] # dep
              THEN <<Element("line", Segment(m, dep.from, dep.to),
                             "", "arrowhead", "", <<>>)>>
              ELSE <<>>)
             \o DrawDependencies_Once(m, i + 1)

\* "Draw dependencies first": the arrow and the label of dependencies i..
RECURSIVE DrawDependencies(_, _)
DrawDependencies(m, i) ==
    IF i > Len(m.dependencies) THEN <<>>
    ELSE LET dep == m.dependencies[i]
             at == Segment(m, dep.from, dep.to)
             mid == << RDiv(RAdd(at[1], at[3]), RInt(2)),
                       RAdd(RDiv(RAdd(at[2], at[4]), RInt(2)), RInt(-5)) >>
         IN  (IF Drawable(m, dep.from, dep.to)
              THEN <<Element("line", at, "", "arrowhead", "", <<>>)>>
                   \o (IF dep.label # Undefined /\ dep.label[1] # <<>>
                       THEN <<Element("text", mid, "", "", "",
                                      escapeHtml(dep.label[1]))>>
                       ELSE <<>>)
              ELSE <<>>)
             \o DrawDependencies(m, i + 1)

\* "Draw evolution relationships": the dashed arrow of evolutions i..
RECURSIVE DrawEvolutions(_, _)
DrawEvolutions(m, i) ==
    IF i > Len(m.evolutions) THEN <<>>
    ELSE LET evo == m.evolutions[i]
         IN  (IF Drawable(m, evo.from, evo.to)
              THEN <<Element("line", Segment(m, evo.from, evo.to),
                             "5,5", "arrowhead-evolution", "", <<>>)>>
              ELSE <<>>)
             \o DrawEvolutions(m, i + 1)

\* "Draw components": the circle and the label of components i..
RECURSIVE DrawComponents(_, _)
DrawComponents(m, i) ==
    IF i > Len(m.components) THEN <<>>
    ELSE LET comp == m.components[i]
         IN  (IF ~IsNumber(comp.x) \/ ~IsNumber(comp.y) THEN <<>>
              ELSE << Element("circle", <<PxX(comp.x), PxY(comp.y), RInt(nodeRadius)>>,
                              "", "",
                              IF comp.isAnchor THEN "anchor" ELSE "component",
                              <<>>),
                      Element("text",
                              <<PxX(comp.x),
                                RAdd(PxY(comp.y), RInt(0 - nodeRadius - 5))>>,
                              "", "", "", escapeHtml(comp.name)) >>)
             \o DrawComponents(m, i + 1)

\* "Annotations (bottom)": annotY starts at height - 35 and grows by 12
RECURSIVE DrawAnnotations(_, _)
DrawAnnotations(m, i) ==
    IF i > Len(m.annotations) THEN <<>>
    ELSE <<Element("text", <<RInt(padding), RInt(height - 35 + 12 * (i - 1))>>,
                   "", "", "",
                   <<m.annotations[i].id>> \o escapeHtml(m.annotations[i].text))>>
         \o DrawAnnotations(m, i + 1)

\* the svg array of renderWardleyMap(map) once calculatePositions(map) has
\* placed the components of m
SvgElements(m) ==
    SvgHeader \o StageGrid(1) \o AxesLabels \o TitleText(m)
    \o DrawDependencies(m, 1) \o DrawEvolutions(m, 1) \o DrawComponents(m, 1)
    \o DrawAnnotations(m, 1) \o <<Element("/svg", <<>>, "", "", "", <<>>)>>

-----------------------------------------------------------------------------
(* generate-svg.js: the standalone parser and layout                       *)

\* one "from -> to" pair of its parseDependencyChain: only the "to" part is
\* searched for a semicolon
ChainEdge_js(parts, i) ==
    LET to0 == parts[i + 2]
        semicolonIdx == IndexFrom(to0, ";", 1)
    IN  [from |-> parts[i + 1],
         to |-> IF semicolonIdx # 0 THEN SubSeq(to0, 1, semicolonIdx - 1) ELSE to0,
         label |-> IF semicolonIdx # 0
                   THEN Some(SubSeq(to0, semicolonIdx + 1, Len(to0)))
                   ELSE Undefined]

RECURSIVE ChainEdges_js(_, _)
ChainEdges_js(parts, i) ==
    IF i >= Len(parts) - 1 THEN <<>>
    ELSE <<ChainEdge_js(parts, i)>> \o ChainEdges_js(parts, i + 1)

\* One iteration of the line loop of its parseWardleyMap.  The component and
\* anchor branches make the same tests as the plugin's; the evolve branch
\* pushes the edge unchecked; there is no stage-evolution branch and no
\* unknown-syntax error.
ParseLine_js(st, line, lineNum) ==
    IF line = <<>> \/ line[1] = "#" THEN st
    ELSE IF Len(line) >= 2 /\ line[1] = "title"
         THEN [st EXCEPT !.map.title = Some(Tail(line))]
    ELSE IF componentMatch(line)
         THEN Declare(st, DeclName(line), DeclStage(line), FALSE, lineNum)
    ELSE IF anchorMatch(line)
         THEN Declare(st, DeclName(line), DeclStage(line), TRUE, lineNum)
    ELSE IF evolveMatch(line)
         THEN [st EXCEPT !.map.evolutions =
                 Append(@, [from |-> SubSeq(line, 2, EvolveArrow(line) - 1),
                            to |-> SubSeq(line, EvolveArrow(line) + 1, Len(line) - 1),
                            stage |-> DeclStage(line)])]
    ELSE IF IndexFrom(line, "->", 1) # 0
         THEN [st EXCEPT !.map.dependencies = @ \o ChainEdges_js(Split(line), 0)]
    ELSE IF annotationMatch(line)
         THEN [st EXCEPT !.map.annotations =
                 Append(@, [id |-> line[2], text |-> SubSeq(line, 3, Len(line))])]
    ELSE IF Len(line) >= 2 /\ line[1] = "note"
         THEN [st EXCEPT !.map.notes = Append(@, Tail(line))]
    ELSE st

\* the parser state after the lines 1..n of t
RECURSIVE ParseLines_js(_, _)
ParseLines_js(t, n) ==
    IF n = 0 THEN [map |-> EmptyMap, componentMap |-> {}, errors |-> <<>>]
    ELSE ParseLine_js(ParseLines_js(t, n - 1), t[n], n)

\* the object its parseWardleyMap returns for the text t
parseWardleyMap_js(t) ==
    LET st == ParseLines_js(t, Len(t))
    IN  [map |-> IF Len(st.errors) = 0 THEN Some(st.map) ELSE Null,
         errors |-> st.errors]

\* its spreadOverlappingComponents: a fixed spreadRange of 0.08
spreadOverlappingComponents_js(components) ==
    [k \in 1..Len(components) |->
        LET comp == components[k]
            group == {j \in 1..Len(components) :
                        GroupKey(components[j]) = GroupKey(comp)}
            first == CHOOSE j \in group : \A j2 \in group : j <= j2
            n == Cardinality(group)
            index == Cardinality({j \in group : j < k})
            spreadRange == Rat(8, 100)
            denom == IF n - 1 >= 1 THEN n - 1 ELSE 1
            offset == RMul(Rat(2 * index - (n - 1), 2),
                           RDiv(spreadRange, RInt(denom)))
        IN  IF n > 1 THEN [comp EXCEPT !.x = RAdd(components[first].x, offset)]
            ELSE comp]

\* its calculatePositions: the same x, layers and y (its topologicalSort and
\* its y loop are the plugin's statement for statement), no evolution
\* alignment, then its own overlap resolution
calculatePositions_js(m) ==
    LET withX == AssignX(m.components)
        layers == topologicalSort(withX, m.dependencies)
        withY == AssignY(withX, layers, MaxLayer(layers))
    IN  [m EXCEPT !.components = spreadOverlappingComponents_js(withY)]

-----------------------------------------------------------------------------
(* main.ts: renderWardleyBlock                                             *)

\* the parser state after the lines 1..n of the source t
RECURSIVE ParseLines(_, _)
ParseLines(t, n) ==
    IF n = 0 THEN [map |-> EmptyMap, componentMap |-> {}, errors |-> <<>>]
    ELSE ParseLine(ParseLines(t, n - 1), t[n], n)

\* the locals of parseWardleyMap(source) at its return statement
parseWardleyMap(t) ==
    LET st == ParseLines(t, Len(t))
    IN  [st EXCEPT !.errors =
            @ \o ValidateDependencies(st.map.dependencies, st.componentMap, 1)]

\* variant: the container is not cleared
Empty_Keep(children) == children

\* container.empty()
Empty(children) == <<>>

\* li.setText(error.line > 0 ? `Line ${error.line}: ${error.message}` : error.message)
ErrorItem(error) ==
    [prefix |-> IF error.line > 0 THEN <<error.line>> ELSE <<>>,
     kind |-> error.kind, arg |-> error.arg]

\* the div.wardley-map-error with its heading and one li per error
ErrorDiv(errs) ==
    [cls |-> "wardley-map-error",
     items |-> [k \in 1..Len(errs) |-> ErrorItem(errs[k])],
     innerHTML |-> <<>>]

\* the div.wardley-map-container whose innerHTML is the rendered string
MapDiv(elements) ==
    [cls |-> "wardley-map-container", items |-> <<>>, innerHTML |-> elements]

-----------------------------------------------------------------------------
(* Input texts                                                             *)

MaxLines == 4
MaxEdgeLines == 3
MaxWide == 7
MaxRenders == 2
MaxBlockLines == 2
MaxCalls == 2

\* General texts: any sequence of at most MaxLines lines of Pool.
Pool ==
    { <<>>,
      <<"component", "A", "[genesis]">>,
      <<"anchor", "A", "[custom]">>,
      <<"component", "B", "[product]">>,
      <<"component", "B", "[bogus]">>,
      <<"anchor", "C", "[bogus]">>,
      <<"evolve", "A", "->", "B", "[bogus]">>,
      <<"evolve", "A", "[bogus]">>,
      <<"A", "->", "B">>,
      <<"B", "->", "A", "->", "C">> }

GeneralLines(t) == IF Len(t) < MaxLines THEN Pool ELSE {}

\* Syntax texts: any sequence of at most MaxLines lines of SyntaxPool (comment
\* and title lines, labelled dependency chains, a self-edge, a two-line cycle).
SyntaxPool ==
    { <<"#", "comment">>,
      <<"title", "T1">>,
      <<"title", "T2", "->", "X">>,
      <<"component", "A", "[genesis]">>,
      <<"component", "B", "[custom]">>,
      <<"component", "C", "[custom]">>,
      <<"A", "->", "B", ";", "l", "->", "C">>,
      <<"A", ";", "k", "->", "B", ";", "l">>,
      <<"B", "->", "A">>,
      <<"A", "->", "A">> }

SyntaxLines(t) == IF Len(t) < MaxLines THEN SyntaxPool ELSE {}

\* Statement-form texts: any sequence of at most MaxLines lines of FormsPool
\* (keyword lines with and without an arrow, and a line of no form).
FormsPool ==
    { <<"title", "T", "->", "X">>,
      <<"component", "A", "[genesis]">>,
      <<"component", "A", "->", "B", "[custom]">>,
      <<"annotation", "1", "A", "->", "B">>,
      <<"note", "A", "->", "B">>,
      <<"annotation", "1", "text">>,
      <<"note", "text">>,
      <<"foo", "bar">> }

FormsLines(t) == IF Len(t) < MaxLines THEN FormsPool ELSE {}

\* Code-block sources: every text of at most MaxBlockLines lines of BlockPool
BlockPool ==
    { <<"component", "A", "[genesis]">>,
      <<"component", "B", "[product]">>,
      <<"component", "B", "[bogus]">>,
      <<"A", "->", "B">>,
      <<"foo", "bar">> }

BlockSources == UNION {[1..n -> BlockPool] : n \in 0..MaxBlockLines}

\* Map texts in the order of the documented examples: a declaration (or a
\* blank line) for each of A, B, C, then dependency lines, then evolve lines,
\* at most MaxEdgeLines lines of edges in all.
DeclLines ==
    << { <<"component", "A", "[genesis]">>, <<"anchor", "A", "[genesis]">> },
       { <<"component", "B", "[genesis]">>, <<"anchor", "B", "[genesis]">>,
         <<"component", "B", "[commodity]">>, <<>> },
       { <<"component", "C", "[genesis]">>, <<"anchor", "C", "[genesis]">>,
         <<"component", "C", "[commodity]">>, <<>> } >>

DependencyLines ==
    { <<"A", "->", "B">>, <<"B", "->", "C">>, <<"A", "->", "C">>,
      <<"C", "->", "A">> }

EvolveLines ==
    { <<"evolve", "A", "->", "B", "[product]">>,
      <<"evolve", "B", "->", "C", "[product]">>,
      <<"evolve", "A", "->", "C", "[product]">>,
      <<"evolve", "B", "->", "A", "[product]">> }

MapLines(t) ==
    IF Len(t) < Len(DeclLines) THEN DeclLines[Len(t) + 1]
    ELSE IF Len(t) >= Len(DeclLines) + MaxEdgeLines THEN {}
    ELSE IF Last(t) \in EvolveLines THEN EvolveLines
    ELSE DependencyLines \cup EvolveLines

\* Wide texts: up to MaxWide components, each genesis or commodity, and no edges
\* (so that all of them share one y).
WideNames == <<"A", "B", "C", "D", "E", "F", "G", "H", "I">>

WideLines(t) ==
    IF Len(t) < MaxWide /\ Len(t) < Len(WideNames)
    THEN { <<"component", WideNames[Len(t) + 1], "[genesis]">>,
           <<"component", WideNames[Len(t) + 1], "[commodity]">> }
    ELSE {}

-----------------------------------------------------------------------------
(* The program                                                             *)

Init ==
    /\ text = <<>>
    /\ map = EmptyMap
    /\ componentMap = {}
    /\ errors = <<>>
    /\ result = [map |-> Null, errors |-> <<>>]
    /\ phase = "parsing"
    /\ renders = 0
    /\ svg = <<>>
    /\ container = <<>>
    /\ calls = 0

\* one iteration of "for (let i = 0; i < lines.length; i++)" on the next line
ReadLine(lines) ==
    /\ phase = "parsing"
    /\ \E line \in lines :
          LET st == ParseLine([map |-> map, componentMap |-> componentMap,
                               errors |-> errors], line, Len(text) + 1)
          IN  /\ text' = Append(text, line)
              /\ map' = st.map
              /\ componentMap' = st.componentMap
              /\ errors' = st.errors
    /\ UNCHANGED <<result, phase, renders, svg, container, calls>>

\* the end of the text: the dependency post-pass and the return statement
Return ==
    /\ phase = "parsing"
    /\ LET errs == errors \o ValidateDependencies(map.dependencies, componentMap, 1)
       IN  /\ errors' = errs
           /\ result' = ParseResult(map, errs)
    /\ phase' = "returned"
    /\ UNCHANGED <<text, map, componentMap, renders, svg, container, calls>>

\* renderWardleyMap(map) on the graph parse returned: calculatePositions
\* mutates the components of that object in place
Render ==
    /\ phase \in {"returned", "rendered"}
    /\ result.map # Null
    /\ renders < MaxRenders
    /\ result' = [result EXCEPT !.map = Some(calculatePositions(result.map[1]))]
    /\ svg' = SvgElements(result'.map[1])
    /\ phase' = "rendered"
    /\ renders' = renders + 1
    /\ UNCHANGED <<text, map, componentMap, errors, container, calls>>

Next ==
    \/ ReadLine(GeneralLines(text))
    \/ Return
    \/ Render

Spec == Init /\ [][Next]_vars

NextMap ==
    \/ ReadLine(MapLines(text))
    \/ Return
    \/ Render

SpecMap == Init /\ [][NextMap]_vars

NextSyntax ==
    \/ ReadLine(SyntaxLines(text))
    \/ Return
    \/ Render

SpecSyntax == Init /\ [][NextSyntax]_vars

\* renderWardleyBlock(source, container): the container is cleared, the
\* source is parsed, and either the error list or the rendered map is added
RenderBlock ==
    /\ calls < MaxCalls
    /\ \E source \in BlockSources :
          LET st == parseWardleyMap(source)
              parsed == ParseResult(st.map, st.errors)
          IN  /\ text' = source
              /\ map' = st.map
              /\ componentMap' = st.componentMap
              /\ errors' = st.errors
              /\ IF Len(parsed.errors) > 0
                 THEN /\ result' = parsed
                      /\ container' = Append(Empty(container), ErrorDiv(parsed.errors))
                      /\ phase' = "returned"
                      /\ UNCHANGED <<renders, svg>>
                 ELSE IF parsed.map # Null
                 THEN /\ result' = [parsed EXCEPT
                                       !.map = Some(calculatePositions(parsed.map[1]))]
                      /\ svg' = SvgElements(result'.map[1])
                      /\ container' = Append(Empty(container), MapDiv(svg'))
                      /\ phase' = "rendered"
                      /\ renders' = renders + 1
                 ELSE /\ result' = parsed
                      /\ container' = Empty(container)
                      /\ phase' = "returned"
                      /\ UNCHANGED <<renders, svg>>
    /\ calls' = calls + 1

NextBlocks == RenderBlock

SpecBlocks == Init /\ [][NextBlocks]_vars

NextForms ==
    \/ ReadLine(FormsLines(text))
    \/ Return
    \/ Render

SpecForms == Init /\ [][NextForms]_vars

NextWide ==
    \/ ReadLine(WideLines(text))
    \/ Return
    \/ Render

SpecWide == Init /\ [][NextWide]_vars

-----------------------------------------------------------------------------
(* Properties                                                              *)

Returned == phase # "parsing"
Placed == phase = "rendered"

\* the graph parse returned (when it is not null)
Graph == result.map[1]

CompOf(name) == Graph.components[Find(Graph.components, name, 1)]

IsDeclaration(line) == LineForm(line) \in {"component", "anchor"}

\* line i of t declares a name that an earlier line of t already declared
DeclaredEarlier(t, i) ==
    \E j \in 1..(i - 1) :
        /\ IsDeclaration(t[j])
        /\ isValidStage(DeclStage(t[j]))
        /\ DeclName(t[j]) = DeclName(t[i])

HasErrorAt(i) == \E k \in 1..Len(errors) : errors[k].line = i

\* the component names a statement refers to
Endpoints(line) ==
    CASE LineForm(line) = "dependency" ->
            LET es == ChainEdges(Split(line), 0)
            IN  {es[k].from : k \in 1..Len(es)} \cup {es[k].to : k \in 1..Len(es)}
      [] LineForm(line) = "evolve" ->
            { SubSeq(line, 2, EvolveArrow(line) - 1),
              SubSeq(line, EvolveArrow(line) + 1, Len(line) - 1) }
      [] LineForm(line) = "evolveStage" -> {DeclName(line)}
      [] OTHER -> {}

\* the names reachable from the names of S along dependency edges
RECURSIVE Reach(_, _)
Reach(S, deps) ==
    LET T == S \cup {deps[k].to : k \in {j \in 1..Len(deps) : deps[j].from \in S}}
    IN  IF T = S THEN S ELSE Reach(T, deps)

Acyclic(deps) ==
    \A k \in 1..Len(deps) : deps[k].from \notin Reach({deps[k].to}, deps)

IsEvolutionTarget(name) ==
    \E k \in 1..Len(Graph.evolutions) : Graph.evolutions[k].to = name

\* C1: once parse has returned, the graph is null exactly when the error list
\* is non-empty.
C1_FailClosed ==
    Returned => ((result.map = Null) <=> (Len(result.errors) > 0))

\* a text with one bad statement after a good declaration: one error, no graph
C1_Witness ==
    /\ phase = "returned"
    /\ Len(result.errors) = 1
    /\ result.map = Null
    /\ Len(map.components) >= 1

\* C2: after layout of a returned graph every component has a numeric x and y.
C2_AllPlaced ==
    Placed => \A k \in 1..Len(Graph.components) :
                IsNumber(Graph.components[k].x) /\ IsNumber(Graph.components[k].y)

\* a laid-out graph with a dependency cycle: some component never got a layer
C2_Witness ==
    /\ Placed
    /\ Len(Graph.components) = 3
    /\ \E k \in 1..Len(Graph.components) :
          Graph.components[k].name \notin
              DOMAIN topologicalSort(Graph.components, Graph.dependencies)

\* C3 (as claimed): after layout every component lies in the unit square.
C3_UnitSquare ==
    Placed => \A k \in 1..Len(Graph.components) :
                /\ RLeq(RInt(0), Graph.components[k].x)
                /\ RLeq(Graph.components[k].x, RInt(1))
                /\ RLeq(RInt(0), Graph.components[k].y)
                /\ RLeq(Graph.components[k].y, RInt(1))

\* C4 (as claimed): after layout every anchor has y = 0.
C4_AnchorsAtTop ==
    Placed => \A k \in 1..Len(Graph.components) :
                Graph.components[k].isAnchor => Graph.components[k].y = RInt(0)

\* C5 (as claimed): after layout the two ends of every evolution edge have
\* the same y.
C5_EvolutionAligned ==
    Placed => \A k \in 1..Len(Graph.evolutions) :
                CompOf(Graph.evolutions[k].to).y = CompOf(Graph.evolutions[k].from).y

C7_Repeatable == [][renders >= 1 => result' = result]_vars

\* a graph laid out twice, with an evolution edge and a spread overlap group
C7_Witness ==
    /\ renders = 2
    /\ Len(Graph.evolutions) >= 1
    /\ \E k \in 1..Len(Graph.components) :
          Graph.components[k].x # STAGE_POSITIONS[Graph.components[k].stage]

\* C8: a component or anchor line whose name an earlier line declared adds an
\* error with its own line number (the duplicate error when its stage is
\* valid), leaves the name declared once, and makes parse return null.
C8_DuplicateRejected ==
    \A i \in 1..Len(text) :
        (IsDeclaration(text[i]) /\ DeclaredEarlier(text, i)) =>
            /\ HasErrorAt(i)
            /\ isValidStage(DeclStage(text[i])) =>
                  \E k \in 1..Len(errors) :
                      errors[k] = Err(i, "Duplicate", DeclName(text[i]))
            /\ Cardinality({k \in 1..Len(map.components) :
                              map.components[k].name = DeclName(text[i])}) = 1
            /\ Returned => result.map = Null

\* an anchor line repeating the name of an earlier component line, returned
C8_Witness ==
    /\ phase = "returned"
    /\ \E i \in 1..Len(text) :
          /\ LineForm(text[i]) = "anchor"
          /\ isValidStage(DeclStage(text[i]))
          /\ \E j \in 1..(i - 1) :
                LineForm(text[j]) = "component" /\ DeclName(text[j]) = DeclName(text[i])
          /\ DeclaredEarlier(text, i)

\* C9 (as claimed): every statement with a bracketed stage that is not one of
\* the four stages gets an invalid-stage error on its line, and the graph is null.
C9_InvalidStageRejected ==
    \A i \in 1..Len(text) :
        (/\ LineForm(text[i]) \in {"component", "anchor", "evolve", "evolveStage"}
         /\ ~isValidStage(DeclStage(text[i])))
        => /\ \E k \in 1..Len(errors) :
                 errors[k].line = i /\ errors[k].kind = "InvalidStage"
           /\ Returned => result.map = Null

\* C10 (as claimed): once parse has returned, every endpoint of a dependency
\* or evolve statement that is not a declared component is named by an error,
\* and the graph is null.
C10_DanglingReported ==
    Returned =>
        \A i \in 1..Len(text) : \A name \in Endpoints(text[i]) :
            name \notin componentMap =>
                /\ \E k \in 1..Len(errors) :
                      /\ errors[k].kind \in {"NotDeclared", "ReferencedNotDeclared"}
                      /\ errors[k].arg = name
                /\ result.map = Null

\* a dependency line of t that names a component no line of t declares
DanglingDependencyLine(t, i) ==
    /\ LineForm(t[i]) = "dependency"
    /\ \E name \in Endpoints(t[i]) : name \notin componentMap

\* C11 (as claimed): once parse has returned, every error carries the 1-based
\* number of a statement line of the text, and every dependency line that
\* refers to an undeclared component has an error with its line number.
C11_ErrorsCarryLine ==
    Returned =>
        /\ \A k \in 1..Len(errors) :
              /\ errors[k].line \in 1..Len(text)
              /\ LineForm(text[errors[k].line]) # "skip"
        /\ \A i \in 1..Len(text) : DanglingDependencyLine(text, i) => HasErrorAt(i)

\* C12 (as claimed): a text whose dependency edges form a cycle among declared
\* components is rejected with a circular-dependency error and a null graph.
C12_CycleRejected ==
    (/\ Returned
     /\ ~Acyclic(map.dependencies)
     /\ \A k \in 1..Len(map.dependencies) :
           map.dependencies[k].from \in componentMap
           /\ map.dependencies[k].to \in componentMap)
    => /\ result.map = Null
       /\ \E k \in 1..Len(errors) : errors[k].kind = "CircularDependency"

\* C13: layout never fails. On every graph parse returned non-null (cycles,
\* self-edges, no edges, no components included) calculatePositions has a
\* value: the same components in the same order, each with a numeric x and y.
C13_LayoutNeverFails ==
    (Returned /\ result.map # Null) =>
        /\ LET placed == calculatePositions(Graph).components
           IN  /\ Len(placed) = Len(Graph.components)
               /\ \A k \in 1..Len(placed) :
                     /\ placed[k].name = Graph.components[k].name
                     /\ IsNumber(placed[k].x) /\ IsNumber(placed[k].y)

\* a laid-out graph with a self-edge on which no component was given a layer
C13_Witness ==
    /\ Placed
    /\ Len(Graph.components) >= 1
    /\ \E k \in 1..Len(Graph.dependencies) :
          Graph.dependencies[k].from = Graph.dependencies[k].to
    /\ DOMAIN topologicalSort(Graph.components, Graph.dependencies) = {}

\* the numbers of the title lines of the text
TitleLines == {i \in 1..Len(text) : LineForm(text[i]) = "title"}

\* C14 (as claimed): with several title lines the title is the text of the
\* first one.
C14_FirstTitleWins ==
    (Returned /\ TitleLines # {}) =>
        \E i \in TitleLines :
            /\ \A j \in TitleLines : i <= j
            /\ map.title = Some(Tail(text[i]))

\* C14 (amended): the title is the text of the last title line of the text
\* (each title line replaces the title set before it), and is unset when the
\* text has no title line.
C14_LastTitleWins ==
    Returned =>
        IF TitleLines = {} THEN map.title = Undefined
        ELSE \E i \in TitleLines :
                /\ \A j \in TitleLines : j <= i
                /\ map.title = Some(Tail(text[i]))

\* a returned graph whose text has two title lines with different texts
C14_Witness ==
    /\ Returned /\ result.map # Null
    /\ \E i, j \in TitleLines : i < j /\ Tail(text[i]) # Tail(text[j])
    /\ Graph.title # Undefined

\* a segment of a dependency line without its ";label" suffix, and the suffix
SegmentName(seg) ==
    IF IndexFrom(seg, ";", 1) # 0 THEN SubSeq(seg, 1, IndexFrom(seg, ";", 1) - 1)
    ELSE seg

SegmentLabel(seg) ==
    IF IndexFrom(seg, ";", 1) # 0
    THEN Some(SubSeq(seg, IndexFrom(seg, ";", 1) + 1, Len(seg)))
    ELSE Undefined

\* one edge per adjacent pair of segments, every segment stripped of its label
LabelledEdges(line) ==
    LET parts == Split(line)
    IN  [k \in 1..(Len(parts) - 1) |->
            [from |-> SegmentName(parts[k]),
             to |-> SegmentName(parts[k + 1]),
             label |-> SegmentLabel(parts[k + 1])]]

RECURSIVE LabelledDependencies(_)
LabelledDependencies(t) ==
    IF t = <<>> THEN <<>>
    ELSE LabelledDependencies(SubSeq(t, 1, Len(t) - 1))
         \o (IF LineForm(Last(t)) = "dependency" THEN LabelledEdges(Last(t))
             ELSE <<>>)

\* C15 (as claimed): a dependency line with k "->" yields k edges, one per
\* adjacent pair of segments in order; the ";label" suffix of any segment is
\* stripped from the name in every edge the segment takes part in and is the
\* label of the edge ending at that segment.
C15_ChainEdges ==
    Returned => map.dependencies = LabelledDependencies(text)

\* some line of t before line i declares name (with a valid stage)
DeclaredBefore(t, i, name) ==
    \E j \in 1..(i - 1) :
        /\ IsDeclaration(t[j])
        /\ isValidStage(DeclStage(t[j]))
        /\ DeclName(t[j]) = name

\* C16 (as claimed): a dependency line naming a component that no earlier line
\* declares (one declared only on a later line included) is reported as an
\* error, and the graph is null.
C16_DeclaredBeforeReferenced ==
    Returned =>
        \A i \in 1..Len(text) :
            LineForm(text[i]) = "dependency" =>
                \A name \in Endpoints(text[i]) :
                    ~DeclaredBefore(text, i, name) =>
                        /\ Len(result.errors) > 0
                        /\ result.map = Null

\* the names of the components of the returned graph
GraphNames == {Graph.components[k].name : k \in 1..Len(Graph.components)}

\* C17: every non-null graph parse returns has pairwise distinct component
\* names, only valid stages on its components, and only declared components
\* at the ends of its dependency edges and of its evolution edges.
C17_GraphWellFormed ==
    (Returned /\ result.map # Null) =>
        /\ \A j, k \in 1..Len(Graph.components) :
              Graph.components[j].name = Graph.components[k].name => j = k
        /\ \A k \in 1..Len(Graph.components) :
              isValidStage(Graph.components[k].stage)
        /\ \A k \in 1..Len(Graph.dependencies) :
              /\ Graph.dependencies[k].from \in GraphNames
              /\ Graph.dependencies[k].to \in GraphNames
        /\ \A k \in 1..Len(Graph.evolutions) :
              /\ Graph.evolutions[k].from \in GraphNames
              /\ Graph.evolutions[k].to \in GraphNames

\* a returned graph with two components, a dependency edge and an evolution edge
C17_Witness ==
    /\ phase = "returned" /\ result.map # Null
    /\ Len(Graph.components) = 2
    /\ Len(Graph.dependencies) >= 1
    /\ Len(Graph.evolutions) >= 1

\* the elements of the rendered string that are arrow lines of one kind
ArrowLines(marker, dash) ==
    SelectSeq(svg, LAMBDA e : e.tag = "line" /\ e.marker = marker /\ e.dash = dash)

Circles == SelectSeq(svg, LAMBDA e : e.tag = "circle")

\* C18: for every valid graph the rendered string holds one circle per
\* component (at the component's position), one solid arrow line per
\* dependency edge (equal edges each get their own line) and one dashed arrow
\* line per evolution edge, each joining the positions of its two ends.
C18_OneElementEach ==
    Placed =>
        /\ Len(Circles) = Len(Graph.components)
        /\ \A k \in 1..Len(Circles) :
              Circles[k].at = <<PxX(Graph.components[k].x),
                                PxY(Graph.components[k].y), RInt(nodeRadius)>>
        /\ Len(ArrowLines("arrowhead", "")) = Len(Graph.dependencies)
        /\ \A k \in 1..Len(ArrowLines("arrowhead", "")) :
              ArrowLines("arrowhead", "")[k].at =
                  <<PxX(CompOf(Graph.dependencies[k].from).x),
                    PxY(CompOf(Graph.dependencies[k].from).y),
                    PxX(CompOf(Graph.dependencies[k].to).x),
                    PxY(CompOf(Graph.dependencies[k].to).y)>>
        /\ Len(ArrowLines("arrowhead-evolution", "5,5")) = Len(Graph.evolutions)
        /\ \A k \in 1..Len(ArrowLines("arrowhead-evolution", "5,5")) :
              ArrowLines("arrowhead-evolution", "5,5")[k].at =
                  <<PxX(CompOf(Graph.evolutions[k].from).x),
                    PxY(CompOf(Graph.evolutions[k].from).y),
                    PxX(CompOf(Graph.evolutions[k].to).x),
                    PxY(CompOf(Graph.evolutions[k].to).y)>>
        /\ Cardinality({k \in 1..Len(svg) : svg[k].tag = "line"}) =
              Len(ValidStages) + Len(Graph.dependencies) + Len(Graph.evolutions)

\* a rendered graph with the same dependency edge declared twice and an
\* evolution edge
C18_Witness ==
    /\ Placed
    /\ \E j, k \in 1..Len(Graph.dependencies) :
          j # k /\ Graph.dependencies[j] = Graph.dependencies[k]
    /\ Len(Graph.evolutions) >= 1
    /\ Len(Circles) >= 2

\* the number of components of the laid-out graph in the (y, stage) group of
\* component k
GroupSize(k) ==
    Cardinality({j \in 1..Len(Graph.components) :
                    GroupKey(Graph.components[j]) = GroupKey(Graph.components[k])})

\* spread = 0.12 * max(1, n / 3)
SpreadOf(n) == RMul(Rat(12, 100), RMax(RInt(1), Rat(n, 3)))

\* |x - center| <= spread / 2 for component k
WithinSpread(k) ==
    LET comp == Graph.components[k]
        diff == RAdd(comp.x, RMul(RInt(-1), STAGE_POSITIONS[comp.stage]))
        half == RDiv(SpreadOf(GroupSize(k)), RInt(2))
    IN  RLeq(diff, half) /\ RLeq(RMul(RInt(-1), half), diff)

\* C19 (as claimed): after layout each x is within spread / 2 of its stage
\* center, and x is the stage center exactly when (if and only if) the
\* component is alone in its (y, stage) group.
C19_CenterIffAlone ==
    Placed =>
        \A k \in 1..Len(Graph.components) :
            /\ WithinSpread(k)
            /\ Graph.components[k].x = STAGE_POSITIONS[Graph.components[k].stage]
                  <=> GroupSize(k) = 1

\* C19 (amended): after layout each x is within spread / 2 of its stage
\* center; a component alone in its group has exactly the stage center, and in
\* a group of n > 1 only the middle member of an odd n has it.
C19_WithinSpread ==
    Placed =>
        \A k \in 1..Len(Graph.components) :
            LET n == GroupSize(k)
                index == Cardinality({j \in 1..(k - 1) :
                            GroupKey(Graph.components[j]) = GroupKey(Graph.components[k])})
            IN  /\ WithinSpread(k)
                /\ Graph.components[k].x = STAGE_POSITIONS[Graph.components[k].stage]
                      <=> (n = 1 \/ 2 * index = n - 1)

\* a layout with a group of more than three components, whose spread is
\* widened, and a component alone in its group
C19_Witness ==
    /\ Placed
    /\ \E k \in 1..Len(Graph.components) : GroupSize(k) > 3
    /\ \E k \in 1..Len(Graph.components) : GroupSize(k) = 1

\* C20: for an acyclic dependency graph the layering gives every dependency
\* edge from -> to a layer at its "from" end strictly above the layer at its
\* "to" end, also when the same edge is declared more than once.
C20_LayersDescend ==
    (Returned /\ result.map # Null /\ Acyclic(Graph.dependencies)) =>
        LET layers == topologicalSort(Graph.components, Graph.dependencies)
        IN  \A k \in 1..Len(Graph.dependencies) :
                /\ Graph.dependencies[k].from \in DOMAIN layers
                /\ Graph.dependencies[k].to \in DOMAIN layers
                /\ layers[Graph.dependencies[k].from] > layers[Graph.dependencies[k].to]

\* a returned acyclic graph with one dependency edge declared twice and a
\* second, different edge
C20_Witness ==
    /\ phase = "returned" /\ result.map # Null
    /\ Acyclic(Graph.dependencies)
    /\ \E j, k \in 1..Len(Graph.dependencies) :
          j < k /\ Graph.dependencies[j] = Graph.dependencies[k]
    /\ \E j, k \in 1..Len(Graph.dependencies) :
          Graph.dependencies[j].from # Graph.dependencies[k].from

\* the names a component depends on directly
DependsOn(name, deps) == {deps[k].to : k \in {k \in 1..Len(deps) : deps[k].from = name}}

\* the length of the longest dependency path from name down to a component
\* with no outgoing edge (defined on acyclic graphs)
RECURSIVE LongestPath(_, _)
LongestPath(name, deps) ==
    IF DependsOn(name, deps) = {} THEN 0
    ELSE LET below == {LongestPath(n, deps) : n \in DependsOn(name, deps)}
         IN  1 + CHOOSE m \in below : \A d \in below : d <= m

\* C21: for an acyclic dependency graph the layer of each component is the
\* length of its longest dependency path: 0 with no outgoing edge, otherwise
\* one more than the greatest layer of the components it depends on.
C21_LayerIsLongestPath ==
    (Returned /\ result.map # Null /\ Acyclic(Graph.dependencies)) =>
        LET layers == topologicalSort(Graph.components, Graph.dependencies)
        IN  \A k \in 1..Len(Graph.components) :
                /\ Graph.components[k].name \in DOMAIN layers
                /\ layers[Graph.components[k].name] =
                      LongestPath(Graph.components[k].name, Graph.dependencies)

\* a returned acyclic graph with a path of two edges and the edge that
\* shortcuts it: the top component has layer 2, not 1
C21_Witness ==
    /\ phase = "returned" /\ result.map # Null
    /\ Acyclic(Graph.dependencies)
    /\ \E a, b, c \in GraphNames :
          /\ b \in DependsOn(a, Graph.dependencies)
          /\ c \in DependsOn(b, Graph.dependencies)
          /\ c \in DependsOn(a, Graph.dependencies)
          /\ LongestPath(a, Graph.dependencies) = 2

\* the lines of the text that are not blank
Statements == SelectSeq(text, LAMBDA line : line # <<>>)

\* C22: a component that no override touches (not an anchor, not the target
\* of an evolution edge) has y = (maxLayer - layer) / (maxLayer + 1), with
\* layer 0 for a component that was given none: layer 0 has the largest y and
\* the deepest layer has y = 0.  For "component A [genesis]",
\* "component B [commodity]", "A -> B": y(A) = 0, y(B) = 1/2, x(A) = 1/8,
\* x(B) = 7/8.
C22_NormalisedY ==
    Placed =>
        LET layers == topologicalSort(Graph.components, Graph.dependencies)
            maxLayer == MaxLayer(layers)
            LayerOf(name) == IF name \in DOMAIN layers THEN layers[name] ELSE 0
        IN  /\ \A k \in 1..Len(Graph.components) :
                  LET comp == Graph.components[k]
                  IN  (~comp.isAnchor /\ ~IsEvolutionTarget(comp.name)) =>
                        /\ comp.y = Rat(maxLayer - LayerOf(comp.name), maxLayer + 1)
                        /\ LayerOf(comp.name) = maxLayer => comp.y = RInt(0)
                        /\ LayerOf(comp.name) = 0 =>
                              \A j \in 1..Len(Graph.components) :
                                  RLeq(Graph.components[j].y, comp.y)
            /\ Statements = << <<"component", "A", "[genesis]">>,
                               <<"component", "B", "[commodity]">>,
                               <<"A", "->", "B">> >>
               => /\ CompOf(<<"A">>).y = RInt(0)
                  /\ CompOf(<<"B">>).y = Rat(1, 2)
                  /\ CompOf(<<"A">>).x = Rat(1, 8)
                  /\ CompOf(<<"B">>).x = Rat(7, 8)

\* the laid-out minimal test case
C22_Witness ==
    /\ Placed
    /\ Statements = << <<"component", "A", "[genesis]">>,
                       <<"component", "B", "[commodity]">>,
                       <<"A", "->", "B">> >>
    /\ CompOf(<<"B">>).y = Rat(1, 2)

\* the members of the (y, stage) group of component k of the laid-out graph,
\* and the index of k among them in declaration order
GroupOf(k) ==
    {j \in 1..Len(Graph.components) :
        GroupKey(Graph.components[j]) = GroupKey(Graph.components[k])}

IndexInGroup(k) == Cardinality({j \in GroupOf(k) : j < k})

\* C23: in every overlap group of size n > 1 the x values strictly increase
\* in declaration order (so they are pairwise distinct) and are symmetric
\* about the group's original x, the stage center; no two components of the
\* same stage end with the same (x, y).
C23_SpreadDistinct ==
    Placed =>
        /\ \A j, k \in 1..Len(Graph.components) :
              (j < k /\ j \in GroupOf(k)) =>
                  RLt(Graph.components[j].x, Graph.components[k].x)
        /\ \A k \in 1..Len(Graph.components) :
              \E j \in GroupOf(k) :
                  /\ IndexInGroup(j) = GroupSize(k) - 1 - IndexInGroup(k)
                  /\ RAdd(Graph.components[j].x, Graph.components[k].x) =
                        RMul(RInt(2), STAGE_POSITIONS[Graph.components[k].stage])
        /\ \A j, k \in 1..Len(Graph.components) :
              (j # k /\ Graph.components[j].stage = Graph.components[k].stage) =>
                  \/ Graph.components[j].x # Graph.components[k].x
                  \/ Graph.components[j].y # Graph.components[k].y

\* a layout with two interleaved overlap groups, one of them of four or more
C23_Witness ==
    /\ Placed
    /\ \E j, k \in 1..Len(Graph.components) :
          /\ j < k /\ GroupSize(k) >= 4 /\ GroupSize(j) >= 2
          /\ j \notin GroupOf(k)
          /\ \E i \in GroupOf(k) : i < j

\* the components of graph m as calculatePositions hands them to overlap
\* resolution: x from the stage, y from the layers, evolutions aligned
BeforeSpread(m) ==
    LET withX == AssignX(m.components)
        layers == topologicalSort(withX, m.dependencies)
    IN  AlignEvolutions(AssignY(withX, layers, MaxLayer(layers)), m.evolutions, 1)

\* C24: overlap resolution changes x only.  The laid-out components are the
\* components before overlap resolution with the same name, stage, anchor flag
\* and y, and a component alone in its (y, stage) group also keeps its x.
C24_SpreadKeepsY ==
    Placed =>
        LET before == BeforeSpread(Graph)
            after == spreadOverlappingComponents(before)
        IN  /\ after = Graph.components
            /\ Len(after) = Len(before)
            /\ \A k \in 1..Len(before) :
                  /\ after[k].y = before[k].y
                  /\ after[k].name = before[k].name
                  /\ after[k].stage = before[k].stage
                  /\ after[k].isAnchor = before[k].isAnchor
                  /\ (\A j \in 1..Len(before) :
                          GroupKey(before[j]) = GroupKey(before[k]) => j = k)
                      => after[k].x = before[k].x

\* a layout in which evolution alignment moved a component into the group of
\* another, and a third component is alone in its group
C24_Witness ==
    /\ Placed
    /\ Len(Graph.evolutions) >= 1
    /\ \E k \in 1..Len(Graph.components) :
          /\ GroupSize(k) > 1
          /\ IsEvolutionTarget(Graph.components[k].name)
          /\ Graph.components[k].x # STAGE_POSITIONS[Graph.components[k].stage]
    /\ \E k \in 1..Len(Graph.components) : GroupSize(k) = 1

\* Line i of t is an invalid statement by the validation rules: unknown
\* syntax, a stage that is not one of the four, a name declared before, or an
\* evolve statement naming a component no earlier line declares.
InvalidStatement(t, i) ==
    LET form == LineForm(t[i])
    IN  \/ form = "unknown"
        \/ /\ form \in {"component", "anchor", "evolve", "evolveStage"}
           /\ ~isValidStage(DeclStage(t[i]))
        \/ IsDeclaration(t[i]) /\ DeclaredEarlier(t, i)
        \/ /\ form \in {"evolve", "evolveStage"}
           /\ \E name \in Endpoints(t[i]) : ~DeclaredBefore(t, i, name)

\* C25 (as claimed): an invalid statement does not stop parsing.  Every
\* invalid statement of the text has an error with its line number, it adds
\* no component, and every valid declaration of the text, those after an
\* invalid statement included, is in the name table.
C25_EveryInvalidReported ==
    /\ \A i \in 1..Len(text) : InvalidStatement(text, i) => HasErrorAt(i)
    /\ \A i \in 1..Len(text) :
          (IsDeclaration(text[i]) /\ ~InvalidStatement(text, i))
              => DeclName(text[i]) \in componentMap
    /\ Len(map.components) =
          Cardinality({i \in 1..Len(text) :
                          IsDeclaration(text[i]) /\ ~InvalidStatement(text, i)})

HasArrow(line) == IndexFrom(line, "->", 1) # 0

\* a line with an arrow that is not a title, component, anchor or evolve form
IsChainLine(line) ==
    /\ line # <<>> /\ HasArrow(line)
    /\ line[1] # "#"
    /\ ~(Len(line) >= 2 /\ line[1] = "title")
    /\ ~componentMatch(line) /\ ~anchorMatch(line)
    /\ ~evolveMatch(line) /\ ~evolveStageMatch(line)

\* a line that is no statement form at all
IsNoForm(line) ==
    /\ line # <<>> /\ ~HasArrow(line)
    /\ line[1] # "#"
    /\ ~(Len(line) >= 2 /\ line[1] \in {"title", "note"})
    /\ ~componentMatch(line) /\ ~anchorMatch(line) /\ ~evolveStageMatch(line)
    /\ ~annotationMatch(line)

\* the edges of the chain lines of t, in order
RECURSIVE ChainLineEdges(_)
ChainLineEdges(t) ==
    IF t = <<>> THEN <<>>
    ELSE ChainLineEdges(SubSeq(t, 1, Len(t) - 1))
         \o (IF IsChainLine(Last(t)) THEN ChainEdges(Split(Last(t)), 0) ELSE <<>>)

\* C26: the statement forms are tried in a fixed order.  A title line is a
\* title even with an arrow in it; a line with an arrow that is not a title,
\* component, anchor or evolve form is a dependency chain even when it starts
\* with "annotation" or "note" (so only arrow-free lines become annotations
\* and notes); a line of no form gets an unknown-syntax error on its line.
C26_FormPriority ==
    /\ map.dependencies = ChainLineEdges(text)
    /\ TitleLines = {i \in 1..Len(text) : Len(text[i]) >= 2 /\ text[i][1] = "title"}
    /\ TitleLines # {} =>
          \E i \in TitleLines : map.title = Some(Tail(text[i]))
    /\ Len(map.annotations) =
          Cardinality({i \in 1..Len(text) :
              Len(text[i]) >= 3 /\ text[i][1] = "annotation" /\ ~HasArrow(text[i])})
    /\ Len(map.notes) =
          Cardinality({i \in 1..Len(text) :
              Len(text[i]) >= 2 /\ text[i][1] = "note" /\ ~HasArrow(text[i])})
    /\ \A i \in 1..Len(text) :
          IsNoForm(text[i]) <=>
              \E k \in 1..Len(errors) : errors[k] = Err(i, "UnknownSyntax", text[i])

\* a parsed text with a title line, an annotation line and a note line that
\* each hold an arrow, and a line of no form
C26_Witness ==
    /\ Returned
    /\ \E i \in 1..Len(text) : text[i][1] = "title" /\ HasArrow(text[i])
    /\ \E i \in 1..Len(text) : text[i][1] = "annotation" /\ HasArrow(text[i])
    /\ \E i \in 1..Len(text) : text[i][1] = "note" /\ HasArrow(text[i])
    /\ \E i \in 1..Len(text) : IsNoForm(text[i])

\* a component without its computed position
Declared(comp) == [name |-> comp.name, stage |-> comp.stage, isAnchor |-> comp.isAnchor]

C28_SameLayout ==
    (Placed /\ parseWardleyMap_js(text).map # Null) =>
        LET standalone == calculatePositions_js(parseWardleyMap_js(text).map[1])
        IN  /\ Len(standalone.components) = Len(Graph.components)
            /\ \A k \in 1..Len(Graph.components) :
                  /\ standalone.components[k].name = Graph.components[k].name
                  /\ standalone.components[k].x = Graph.components[k].x
                  /\ standalone.components[k].y = Graph.components[k].y

\* C29: after any sequence of renderWardleyBlock calls the container holds
\* only the result of the last call: for a source with parse errors the one
\* error div with one item per error (with its line number when it has one)
\* and no map; otherwise the one map div with the rendered string and no
\* error list.
C29_LastRenderOnly ==
    calls >= 1 =>
        LET parsed == parseWardleyMap(text)
        IN  /\ Len(container) = 1
            /\ IF Len(parsed.errors) > 0
               THEN /\ container[1].cls = "wardley-map-error"
                    /\ container[1].innerHTML = <<>>
                    /\ Len(container[1].items) = Len(parsed.errors)
                    /\ \A k \in 1..Len(parsed.errors) :
                          /\ container[1].items[k].kind = parsed.errors[k].kind
                          /\ container[1].items[k].arg = parsed.errors[k].arg
                          /\ container[1].items[k].prefix =
                                IF parsed.errors[k].line > 0
                                THEN <<parsed.errors[k].line>> ELSE <<>>
               ELSE /\ container[1].cls = "wardley-map-container"
                    /\ container[1].items = <<>>
                    /\ container[1].innerHTML =
                          SvgElements(calculatePositions(parsed.map))

\* a second call, with a valid source of two lines, on a container that held
\* the error list of the first call
C29_Witness ==
    /\ calls = 2
    /\ renders = 1
    /\ Len(text) = 2
    /\ Len(errors) = 0
    /\ container[1].cls = "wardley-map-container"

\* how many times name was pushed on the queue in the run
TimesPushed(run, name) ==
    Cardinality({k \in 1..Len(run.pushed) : run.pushed[k] = name})

\* C30: the queue loop of the layering ends on every graph, cyclic or not
\* (it takes one name off the queue per round and every name is pushed at
\* most once, so it makes at most as many rounds as there are names with an
\* in-degree: the components, and the sources of edges); no in-degree goes
\* below zero; on an acyclic graph whose edges join declared components (the
\* only graphs parseWardleyMap returns) every component is pushed exactly
\* once and its layer does not change after it was taken off the queue.
C30_QueueLoop ==
    LET run == topologicalSortRun(map.components, map.dependencies)
        names == {map.components[k].name : k \in 1..Len(map.components)}
    IN  /\ run.layers = topologicalSort(map.components, map.dependencies)
        /\ run.queue = <<>>
        /\ Len(run.pushed) <= Cardinality(DOMAIN run.inDegree)
        /\ \A k \in 1..Len(run.pushed) : run.pushed[k] \in run.shifted
        /\ \A name \in DOMAIN run.inDegree : TimesPushed(run, name) <= 1
        /\ ~run.negative
        /\ \A name \in DOMAIN run.inDegree : run.inDegree[name] >= 0
        /\ ( /\ Acyclic(map.dependencies)
             /\ \A k \in 1..Len(map.dependencies) :
                   {map.dependencies[k].from, map.dependencies[k].to} \subseteq names )
           =>
              /\ \A name \in names : TimesPushed(run, name) = 1
              /\ ~run.late

\* a returned graph with a cycle reached from a component on the queue, and
\* a returned acyclic graph with a component that has two edges out of it
C30_WitnessCyclic ==
    /\ phase = "returned" /\ result.map # Null
    /\ ~Acyclic(map.dependencies)
    /\ topologicalSortRun(map.components, map.dependencies).pushed # <<>>
    /\ Len(topologicalSortRun(map.components, map.dependencies).pushed)
          < Len(map.components)

C30_Witness ==
    /\ phase = "returned" /\ result.map # Null
    /\ Acyclic(map.dependencies)
    /\ Len(map.components) = 3
    /\ \E j, k \in 1..Len(map.dependencies) :
          /\ map.dependencies[j].from = map.dependencies[k].from
          /\ map.dependencies[j].to # map.dependencies[k].to

====
